---- MODULE Spec2Model ----
(***************************************************************************)
(* Expense tracker (expo-sqlite-tasks): the three ExpenseScreen components *)
(* of the repository, their form, their SQLite table and the asynchronous  *)
(* statements they issue, plus the pure date classifiers and the category  *)
(* aggregation.                                                            *)
(*                                                                         *)
(* Text is a sequence of one-character strings, so trimming, parsing and   *)
(* formatting are computed character by character.  Instants are minutes   *)
(* since 1970-01-01T00:00Z; tz is the device's offset east of UTC in       *)
(* minutes.  Amounts are whole numbers (no fractional digits are typed).   *)
(***************************************************************************)
EXTENDS Integers, Sequences, FiniteSets, TLC

VARIABLES
    variant,     \* which ExpenseScreen is mounted: 1 (l.17), 2 (l.247), 3 (l.678)
    store,       \* rows of table expenses
    nextId,      \* AUTOINCREMENT: the id the next INSERT gets
    expenses,    \* useState([]) : the list on screen
    amount,      \* form field
    category,    \* form field
    note,        \* form field
    date,        \* form field
    filter,      \* FILTERS.ALL / WEEK / MONTH
    editingId,   \* null = add mode
    queue,       \* statements issued to SQLite, not yet executed (FIFO)
    inbox,       \* executed statements whose promise/callback has not run yet (FIFO)
    clock,       \* the device's time, minutes since the epoch (UTC)
    tz,          \* the device's offset east of UTC, minutes
    stale,       \* the list on screen was read before the latest completed write ran
    probe,       \* last application of a pure function: its inputs and outputs
    did          \* the handler or step that ran last

vars == <<variant, store, nextId, expenses, amount, category, note, date, filter,
          editingId, queue, inbox, clock, tz, stale, probe, did>>

(***************************************************************************)
(* Bounds                                                                  *)
(***************************************************************************)
MaxId == 2          \* INSERTs issued in one behaviour
MaxPending == 2     \* handlers in flight at once
MaxTicks == 7       \* clock steps while the form is submitted
MaxProbeTicks == 28 \* clock steps in the classifiers' specification
MaxLen == 3         \* length of the record sequence given to the aggregation
MaxFormId == 1      \* INSERTs issued while one handler runs at a time

(***************************************************************************)
(* JavaScript values                                                       *)
(***************************************************************************)
\* null for an id (useState(null)); ids are positive.
NullId == 0 - 1
\* NaN, also the time value of an Invalid Date.
NaN == 0 - 2147483647
\* SQL NULL / JS null in a numeric column.
NullNum == 0 - 2147483646
\* SQL NULL / JS null in a text column: no text has this shape.
NullText == <<"null">>

Digits == <<"0", "1", "2", "3", "4", "5", "6", "7", "8", "9">>
IsDigit(c) == \E i \in 1..10 : Digits[i] = c
DigitVal(c) == (CHOOSE i \in 1..10 : Digits[i] = c) - 1
IsSpace(c) == c = " "

\* !x for a text, a number or an id
FalsyText(s) == s = NullText \/ s = <<>>
FalsyNum(n) == n = NullNum \/ n = NaN \/ n = 0
FalsyId(i) == i = NullId \/ i = 0

\* a || b
OrText(a, b) == IF FalsyText(a) THEN b ELSE a

RECURSIVE TrimStart(_)
TrimStart(s) ==
    IF s # <<>> /\ IsSpace(Head(s)) THEN TrimStart(Tail(s)) ELSE s

RECURSIVE TrimEnd(_)
TrimEnd(s) ==
    IF s # <<>> /\ IsSpace(s[Len(s)]) THEN TrimEnd(SubSeq(s, 1, Len(s) - 1)) ELSE s

\* String.prototype.trim
Trim(s) == TrimEnd(TrimStart(s))

\* the longest prefix of decimal digits
RECURSIVE DigitPrefix(_)
DigitPrefix(s) ==
    IF s # <<>> /\ IsDigit(Head(s)) THEN <<Head(s)>> \o DigitPrefix(Tail(s)) ELSE <<>>

RECURSIVE DigitsValue(_)
DigitsValue(s) ==
    IF s = <<>> THEN 0 ELSE 10 * DigitsValue(SubSeq(s, 1, Len(s) - 1)) + DigitVal(s[Len(s)])

\* parseFloat on whole-number text: leading white space, an optional sign, digits;
\* whatever follows the digits is ignored; no digits gives NaN.
ParseFloat(s) ==
    LET t == TrimStart(s)
        neg == t # <<>> /\ Head(t) = "-"
        u == IF t # <<>> /\ Head(t) \in {"-", "+"} THEN Tail(t) ELSE t
        ds == DigitPrefix(u)
    IN  IF ds = <<>> THEN NaN
        ELSE IF neg THEN 0 - DigitsValue(ds) ELSE DigitsValue(ds)

\* isNaN(x)
IsNaN(x) == x = NaN

RECURSIVE NatToText(_)
NatToText(n) ==
    IF n < 10 THEN <<Digits[n + 1]>> ELSE NatToText(n \div 10) \o <<Digits[(n % 10) + 1]>>

\* String(number)
NumToText(n) ==
    IF n = NaN THEN <<"N", "a", "N">>
    ELSE IF n = NullNum THEN <<"n", "u", "l", "l">>
    ELSE IF n < 0 THEN <<"-">> \o NatToText(0 - n) ELSE NatToText(n)

\* n written with at least w digits
RECURSIVE Pad(_, _)
Pad(s, w) == IF Len(s) < w THEN Pad(<<"0">> \o s, w) ELSE s

(***************************************************************************)
(* Calendar and Date                                                       *)
(***************************************************************************)
MinPerDay == 1440

IsLeap(y) == (y % 4 = 0 /\ y % 100 # 0) \/ y % 400 = 0

DaysInMonth(y, m) ==
    IF m = 2 THEN (IF IsLeap(y) THEN 29 ELSE 28)
    ELSE IF m \in {4, 6, 9, 11} THEN 30 ELSE 31

\* day number (days since 1970-01-01) of a proleptic Gregorian date
DaysOfEra(era, yoe, doy) == era * 146097 + yoe * 365 + yoe \div 4 - yoe \div 100 + doy - 719468
DaysOfYear(yy, doy) == DaysOfEra(yy \div 400, yy % 400, doy)
DaysFromCivil(y, m, d) ==
    DaysOfYear(IF m <= 2 THEN y - 1 ELSE y, (153 * ((m + 9) % 12) + 2) \div 5 + d - 1)

\* the date of a day number, step by step: day of era, year of era, day of year,
\* month counted from March
CivilOfMonth(yoe, era, doy, mp) ==
    [y |-> yoe + era * 400 + (IF mp < 10 THEN 0 ELSE 1),
     m |-> IF mp < 10 THEN mp + 3 ELSE mp - 9,
     d |-> doy - (153 * mp + 2) \div 5 + 1]
CivilOfDoy(yoe, era, doy) == CivilOfMonth(yoe, era, doy, (5 * doy + 2) \div 153)
CivilOfYoe(doe, era, yoe) ==
    CivilOfDoy(yoe, era, doe - (365 * yoe + yoe \div 4 - yoe \div 100))
CivilOfDoe(doe, era) ==
    CivilOfYoe(doe, era, (doe - doe \div 1460 + doe \div 36524 - doe \div 146096) \div 365)
CivilOfEra(zz, era) == CivilOfDoe(zz - era * 146097, era)
CivilFromDays(z) == CivilOfEra(z + 719468, (z + 719468) \div 146097)

\* 0 = Sunday .. 6 = Saturday
WeekDay(z) == (z + 4) % 7

\* the day number and the minute of the day of instant t on a clock offset by off
DayOf(t, off) == (t + off) \div MinPerDay
MinuteOf(t, off) == (t + off) % MinPerDay

\* "YYYY-MM-DD" of a date
DateText(c) ==
    Pad(NatToText(c.y), 4) \o <<"-">> \o Pad(NatToText(c.m), 2) \o <<"-">>
        \o Pad(NatToText(c.d), 2)
DayText(z) == DateText(CivilFromDays(z))

\* Date.prototype.toISOString().slice(0, 10): the UTC date
FormatDateForDb(t) == DayText(DayOf(t, 0))

AllDigits(s) == \A i \in 1..Len(s) : IsDigit(s[i])

\* the time value of year y, month m, day d, or NaN when there is no such day
TimeOfDate(y, m, d) ==
    IF m \in 1..12 /\ d >= 1 /\ d <= DaysInMonth(y, m)
    THEN DaysFromCivil(y, m, d) * MinPerDay
    ELSE NaN

\* new Date(dateStr).getTime() for the date-only ISO form, which is read as
\* UTC midnight; any other text used here is not a date at all (NaN).
DateParse(s) ==
    IF s = NullText \/ Len(s) # 10 THEN NaN
    ELSE IF ~(s[5] = "-" /\ s[8] = "-" /\ AllDigits(SubSeq(s, 1, 4))
              /\ AllDigits(SubSeq(s, 6, 7)) /\ AllDigits(SubSeq(s, 9, 10))) THEN NaN
    ELSE TimeOfDate(DigitsValue(SubSeq(s, 1, 4)), DigitsValue(SubSeq(s, 6, 7)),
                    DigitsValue(SubSeq(s, 9, 10)))

\* getFullYear(), getMonth() (0-based), getDate(), getDay() in local time
GetFullYear(t, off) == IF t = NaN THEN NaN ELSE CivilFromDays(DayOf(t, off)).y
GetMonth(t, off) == IF t = NaN THEN NaN ELSE CivilFromDays(DayOf(t, off)).m - 1
GetDate(t, off) == IF t = NaN THEN NaN ELSE CivilFromDays(DayOf(t, off)).d
GetDay(t, off) == IF t = NaN THEN NaN ELSE WeekDay(DayOf(t, off))

\* setDate(n) in local time: day n of t's month, n outside the month rolls over
DayInMonthOf(c, n) == DaysFromCivil(c.y, c.m, 1) + n - 1
SetDate(t, n, off) ==
    DayInMonthOf(CivilFromDays(DayOf(t, off)), n) * MinPerDay + MinuteOf(t, off) - off

\* setHours(h, m, s, ms) in local time, to the minute
SetHours(t, h, m, off) == DayOf(t, off) * MinPerDay + h * 60 + m - off

\* ===, <= and >= on numbers: every comparison with NaN is false
StrictEq(a, b) == a # NaN /\ b # NaN /\ a = b
Geq(a, b) == a # NaN /\ b # NaN /\ a >= b
Leq(a, b) == a # NaN /\ b # NaN /\ a <= b

(***************************************************************************)
(* Filter classifier                                                       *)
(***************************************************************************)
\* monday: now moved back to Monday, 00:00 local
MondayStart(now, off) ==
    SetHours(SetDate(now, GetDate(now, off) - ((GetDay(now, off) + 6) % 7), off), 0, 0, off)
\* sunday: monday moved on six days, 23:59:59.999 local
SundayEnd(monday, off) ==
    SetHours(SetDate(monday, GetDate(monday, off) + 6, off), 23, 59, off)
\* d >= monday && d <= sunday
InWeekOf(d, monday, off) == Geq(d, monday) /\ Leq(d, SundayEnd(monday, off))
\* isInCurrentWeek from the parsed date d on
WeekTest(d, now, off) ==
    IF IsNaN(d) THEN FALSE ELSE InWeekOf(d, MondayStart(now, off), off)

\* isInCurrentWeek (second screen), now = new Date()
isInCurrentWeek(dateStr, now, off) ==
    IF FalsyText(dateStr) THEN FALSE ELSE WeekTest(DateParse(dateStr), now, off)

\* the comparison of year and month of isInCurrentMonth
SameMonth(d, now, off) ==
    /\ StrictEq(GetFullYear(d, off), GetFullYear(now, off))
    /\ StrictEq(GetMonth(d, off), GetMonth(now, off))
\* isInCurrentMonth (second screen) from the parsed date d on
MonthTest(d, now, off) == IF IsNaN(d) THEN FALSE ELSE SameMonth(d, now, off)

\* isInCurrentMonth keeping a row that has no date
isInCurrentMonthOpen(dateStr, now, off) ==
    IF FalsyText(dateStr) THEN TRUE ELSE MonthTest(DateParse(dateStr), now, off)

\* isInCurrentMonth (second screen)
isInCurrentMonth(dateStr, now, off) ==
    IF FalsyText(dateStr) THEN FALSE ELSE MonthTest(DateParse(dateStr), now, off)

\* isInCurrentWeek (third screen): isNaN(d) in place of Number.isNaN(d.getTime())
isInCurrentWeekV3(dateStr, now, off) ==
    IF FalsyText(dateStr) THEN FALSE ELSE WeekTest(DateParse(dateStr), now, off)

\* isInCurrentMonth (third screen): no test for an Invalid Date
isInCurrentMonthV3(dateStr, now, off) ==
    IF FalsyText(dateStr) THEN FALSE ELSE SameMonth(DateParse(dateStr), now, off)

\* the classifier of screen v for filter f
Keeps(f, v, dateStr, now, off) ==
    IF f = "WEEK"
    THEN (IF v = 2 THEN isInCurrentWeek(dateStr, now, off)
          ELSE isInCurrentWeekV3(dateStr, now, off))
    ELSE (IF v = 2 THEN isInCurrentMonth(dateStr, now, off)
          ELSE isInCurrentMonthV3(dateStr, now, off))

RECURSIVE SelectRows(_, _, _, _, _)
\* Array.prototype.filter with the classifier of screen v for filter f
SelectRows(list, f, v, now, off) ==
    IF list = <<>> THEN <<>>
    ELSE (IF Keeps(f, v, Head(list).date, now, off) THEN <<Head(list)>> ELSE <<>>)
             \o SelectRows(Tail(list), f, v, now, off)

\* filteredExpenses of screen v (the first screen shows every row)
filteredExpenses(list, f, v, now, off) ==
    IF v = 1 \/ f \notin {"WEEK", "MONTH"} THEN list
    ELSE SelectRows(list, f, v, now, off)

(***************************************************************************)
(* Aggregator.  A JavaScript object is the sequence of its own properties  *)
(* in creation order, each a pair <<key, value>>.                          *)
(***************************************************************************)
HasKey(obj, k) == \E i \in 1..Len(obj) : obj[i][1] = k
GetKey(obj, k) == obj[CHOOSE i \in 1..Len(obj) : obj[i][1] = k][2]

\* obj[k] = val
PutKey(obj, k, val) ==
    IF HasKey(obj, k)
    THEN [i \in 1..Len(obj) |-> IF obj[i][1] = k THEN <<k, val>> ELSE obj[i]]
    ELSE Append(obj, <<k, val>>)

\* a property name that is an array index: canonical decimal text of a number
IsArrayIndex(k) ==
    /\ k # <<>>
    /\ Len(k) <= 9
    /\ AllDigits(k)
    /\ (Len(k) > 1 => k[1] # "0")

RECURSIVE SortIndexKeys(_)
\* the array-index keys of a set of keys, in ascending numeric order
SortIndexKeys(ks) ==
    IF ks = {} THEN <<>>
    ELSE LET lo == CHOOSE k \in ks : \A o \in ks : DigitsValue(k) <= DigitsValue(o)
         IN  <<lo>> \o SortIndexKeys(ks \ {lo})

RECURSIVE OtherKeys(_)
\* the keys that are no array index, in creation order
OtherKeys(obj) ==
    IF obj = <<>> THEN <<>>
    ELSE (IF IsArrayIndex(obj[1][1]) THEN <<>> ELSE <<obj[1][1]>>) \o OtherKeys(Tail(obj))

\* Object.keys: array-index keys first, ascending, then the others as created
ObjectKeys(obj) ==
    SortIndexKeys({obj[i][1] : i \in {j \in 1..Len(obj) : IsArrayIndex(obj[j][1])}})
        \o OtherKeys(obj)

\* Object.values, Object.entries
ObjectValues(obj) == [i \in 1..Len(obj) |-> GetKey(obj, ObjectKeys(obj)[i])]
ObjectEntries(obj) ==
    [i \in 1..Len(obj) |-> <<ObjectKeys(obj)[i], GetKey(obj, ObjectKeys(obj)[i])>>]

\* Number(x): null is 0
ToNumber(x) == IF x = NullNum THEN 0 ELSE x
\* a + b on numbers
Plus(a, b) == IF a = NaN \/ b = NaN THEN NaN ELSE a + b
\* x || 0
OrZero(x) == IF FalsyNum(x) THEN 0 ELSE x

Uncategorized == <<"U", "n", "c", "a", "t", "e", "g", "o", "r", "i", "z", "e", "d">>
Other == <<"O", "t", "h", "e", "r">>

RECURSIVE GroupInto(_, _, _)
\* the forEach of totalsByCategory, from object map on
GroupInto(map, list, fallback) ==
    IF list = <<>> THEN map
    ELSE LET e == Head(list)
             cat == OrText(e.category, fallback)
             amt == ToNumber(OrZero(e.amount))
             old == IF HasKey(map, cat) THEN OrZero(GetKey(map, cat)) ELSE 0
         IN  GroupInto(PutKey(map, cat, Plus(old, amt)), Tail(list), fallback)

\* totalsByCategory of screen v
totalsByCategory(list, v) == GroupInto(<<>>, list, IF v = 2 THEN Uncategorized ELSE Other)

RECURSIVE SumAmounts(_)
SumAmounts(list) ==
    IF list = <<>> THEN 0
    ELSE Plus(SumAmounts(SubSeq(list, 1, Len(list) - 1)),
              ToNumber(OrZero(list[Len(list)].amount)))

RECURSIVE SumSeq(_)
SumSeq(ns) ==
    IF ns = <<>> THEN 0 ELSE Plus(SumSeq(SubSeq(ns, 1, Len(ns) - 1)), ns[Len(ns)])

\* totalSpending of screen v: a reduce over the rows (2), over the map's values (3)
totalSpending(list, v) ==
    IF v = 2 THEN SumAmounts(list) ELSE SumSeq(ObjectValues(totalsByCategory(list, v)))

(***************************************************************************)
(* State of a freshly mounted screen                                       *)
(***************************************************************************)
TimeZones == {0 - 300, 0, 540}

\* a row of table expenses
Row(i, a, c, n, d) == [id |-> i, amount |-> a, category |-> c, note |-> n, date |-> d]

NoProbe == [kind |-> "none"]

\* the useState initial values; nothing issued, nothing stored
Fresh ==
    /\ store = {}
    /\ nextId = 1
    /\ expenses = <<>>
    /\ amount = <<>>
    /\ category = <<>>
    /\ note = <<>>
    /\ date = <<>>
    /\ filter = "ALL"
    /\ editingId = NullId
    /\ inbox = <<>>
    /\ stale = FALSE
    /\ did = "mount"

screenVars == <<variant, store, nextId, expenses, amount, category, note, date, filter,
                editingId, queue, inbox, stale>>

(***************************************************************************)
(* The classifiers applied to one row, for every "now"                     *)
(***************************************************************************)
TickMinutes == 6 * 60

\* Monday 2024-02-26 (a leap February ends that week) and Monday 2025-12-29
\* (the week and the month end with the year), 00:00 UTC
ProbeStarts == {DaysFromCivil(2024, 2, 26) * MinPerDay, DaysFromCivil(2025, 12, 29) * MinPerDay}

\* the Monday of the week of local day z
MondayOf(z) == z - ((WeekDay(z) + 6) % 7)
\* first and last day of the month of local day z
FirstOfMonth(z) == LET c == CivilFromDays(z) IN DaysFromCivil(c.y, c.m, 1)
LastOfMonth(z) == LET c == CivilFromDays(z) IN DaysFromCivil(c.y, c.m, DaysInMonth(c.y, c.m))
\* the same month and day in another year (day capped at 28)
SameMonthOf(z, dy) ==
    LET c == CivilFromDays(z)
    IN  DaysFromCivil(c.y + dy, c.m, IF c.d > 28 THEN 28 ELSE c.d)

Garbage == <<"a", "b", "c">>
BadMonth == <<"2", "0", "2", "4", "-", "1", "3", "-", "0", "1">>
Malformed == {<<>>, NullText, Garbage, BadMonth}

\* the dates worth classifying when the local day is z
DatesAround(z) ==
    {DayText(d) : d \in (MondayOf(z) - 1)..(MondayOf(z) + 7)}
        \cup {DayText(FirstOfMonth(z)), DayText(FirstOfMonth(z) - 1),
              DayText(LastOfMonth(z)), DayText(LastOfMonth(z) + 1),
              DayText(SameMonthOf(z, 1)), DayText(SameMonthOf(z, 0 - 1))}

InitFilter ==
    /\ Fresh
    /\ variant \in {2, 3}
    /\ clock \in ProbeStarts
    /\ tz \in TimeZones
    /\ queue = <<>>
    /\ probe = NoProbe

ProbeTick ==
    /\ \E s \in ProbeStarts : clock >= s /\ clock < s + MaxProbeTicks * TickMinutes
    /\ clock' = clock + TickMinutes
    /\ probe' = NoProbe
    /\ did' = "ProbeTick"
    /\ UNCHANGED <<screenVars, tz>>

\* the WEEK and MONTH filters of the mounted screen on a list holding one row dated s
Classify ==
    \E s \in DatesAround(DayOf(clock, tz)) \cup Malformed :
        LET rows == <<Row(1, 5, <<"F">>, NullText, s)>>
        IN  /\ probe' = [kind |-> "filter", date |-> s, now |-> clock, off |-> tz,
                         all |-> filteredExpenses(rows, "ALL", variant, clock, tz),
                         week |-> filteredExpenses(rows, "WEEK", variant, clock, tz),
                         month |-> filteredExpenses(rows, "MONTH", variant, clock, tz)]
            /\ did' = "Classify"
            /\ UNCHANGED <<screenVars, clock, tz>>

NextFilter == ProbeTick \/ Classify

SpecFilter == InitFilter /\ [][NextFilter]_vars

IsFilterProbe == probe.kind = "filter"
ProbeDay == DayOf(probe.now, probe.off)

\* C5: under WEEK the Monday and the Sunday of the week of "now" are kept, the
\* Sunday before and the Monday after are dropped, on every weekday and device offset
C5_WeekBoundaries ==
    IsFilterProbe =>
        /\ probe.date = DayText(MondayOf(ProbeDay)) => Len(probe.week) = 1
        /\ probe.date = DayText(MondayOf(ProbeDay) + 6) => Len(probe.week) = 1
        /\ probe.date = DayText(MondayOf(ProbeDay) - 1) => Len(probe.week) = 0
        /\ probe.date = DayText(MondayOf(ProbeDay) + 7) => Len(probe.week) = 0

\* C6: under MONTH the 1st and the last day of the month of "now" are kept, the last
\* day of the month before and the same month of another year are dropped, on every
\* device offset
C6_MonthBoundaries ==
    IsFilterProbe =>
        /\ probe.date = DayText(FirstOfMonth(ProbeDay)) => Len(probe.month) = 1
        /\ probe.date = DayText(LastOfMonth(ProbeDay)) => Len(probe.month) = 1
        /\ probe.date = DayText(FirstOfMonth(ProbeDay) - 1) => Len(probe.month) = 0
        /\ probe.date \in {DayText(SameMonthOf(ProbeDay, 1)), DayText(SameMonthOf(ProbeDay, 0 - 1))}
               => Len(probe.month) = 0

\* C10: a row whose date is empty, missing or no date is dropped by WEEK and by
\* MONTH (and kept by ALL), whatever "now" is
C10_MalformedExcluded ==
    (IsFilterProbe /\ IsNaN(DateParse(probe.date))) =>
        Len(probe.week) = 0 /\ Len(probe.month) = 0 /\ Len(probe.all) = 1

C10_Witness ==
    IsFilterProbe /\ probe.date = Garbage /\ Len(probe.week) = 0 /\ Len(probe.month) = 0

(***************************************************************************)
(* The aggregation applied to every short list of rows                     *)
(***************************************************************************)
\* free-form labels, two of them digit strings
Labels == {<<"F">>, <<"R">>, <<"7">>, <<"1", "0">>}
Amounts == {3, 5}

\* the lists getAllAsync can return: n rows, ids descending
RowLists(n) ==
    LET RowDate == DayText(DaysFromCivil(2024, 2, 26))
    IN  {[i \in 1..n |-> Row(n + 1 - i, f[i][1], f[i][2], NullText, RowDate)] :
            f \in [1..n -> Amounts \X Labels]}

InitTotals ==
    /\ Fresh
    /\ variant \in {2, 3}
    /\ clock \in ProbeStarts
    /\ tz = 0
    /\ queue = <<>>
    /\ \E n \in 0..MaxLen : \E rows \in RowLists(n) :
          probe = [kind |-> "rows", rows |-> rows]

\* one render: the totals box and the chart of the mounted screen
Render ==
    /\ probe.kind = "rows"
    /\ LET list == filteredExpenses(probe.rows, filter, variant, clock, tz)
           map == totalsByCategory(list, variant)
       IN  probe' = [kind |-> "totals", rows |-> list,
                     byCategory |-> ObjectEntries(map),
                     labels |-> ObjectKeys(map),
                     data |-> ObjectValues(map),
                     total |-> totalSpending(list, variant)]
    /\ did' = "Render"
    /\ UNCHANGED <<screenVars, clock, tz>>

\* setFilter
SetFilter ==
    /\ \E f \in {"ALL", "WEEK", "MONTH"} : filter' = f
    /\ did' = "setFilter"
    /\ UNCHANGED <<variant, store, nextId, expenses, amount, category, note, date,
                   editingId, queue, inbox, stale, clock, tz, probe>>

NextTotals == Render \/ SetFilter

SpecTotals == InitTotals /\ [][NextTotals]_vars

IsTotalsProbe == probe.kind = "totals"

RECURSIVE SumFor(_, _)
\* the sum of the amounts of the rows of list labelled c
SumFor(list, c) ==
    IF list = <<>> THEN 0
    ELSE (IF Head(list).category = c THEN Head(list).amount ELSE 0) + SumFor(Tail(list), c)

RECURSIVE SumAll(_)
SumAll(list) == IF list = <<>> THEN 0 ELSE Head(list).amount + SumAll(Tail(list))

RECURSIVE FirstSeen(_, _)
\* the labels of list in the order of their first occurrence
FirstSeen(list, seen) ==
    IF list = <<>> THEN <<>>
    ELSE IF Head(list).category \in seen THEN FirstSeen(Tail(list), seen)
    ELSE <<Head(list).category>> \o FirstSeen(Tail(list), seen \cup {Head(list).category})

\* the per-category totals and the grand total are the sums
TotalsAreSums ==
    IsTotalsProbe =>
        /\ {probe.byCategory[i][1] : i \in 1..Len(probe.byCategory)}
               = {probe.rows[i].category : i \in 1..Len(probe.rows)}
        /\ \A i \in 1..Len(probe.byCategory) :
               probe.byCategory[i][2] = SumFor(probe.rows, probe.byCategory[i][1])
        /\ \A i \in 1..Len(probe.labels) :
               probe.data[i] = SumFor(probe.rows, probe.labels[i])
        /\ probe.total = SumAll(probe.rows)
        /\ probe.total = SumSeq(probe.data)

\* the categories are listed, and charted, in the order of their first occurrence
TotalsInFirstSeenOrder ==
    IsTotalsProbe =>
        /\ probe.labels = FirstSeen(probe.rows, {})
        /\ [i \in 1..Len(probe.byCategory) |-> probe.byCategory[i][1]]
               = FirstSeen(probe.rows, {})

\* C7: per-category totals and grand total are the sums, categories in the order of
\* first occurrence, for every set of labels, digit strings included
C7_TotalsByCategory == TotalsAreSums /\ TotalsInFirstSeenOrder

(***************************************************************************)
(* The store.  Statements run one at a time in the order issued, and their *)
(* promises (callbacks) settle in the order the statements ran.            *)
(***************************************************************************)
NoRow == Row(NullId, NullNum, NullText, NullText, NullText)

\* a statement issued to the database; k names what the caller does when it settles:
\* "setup", "submit", "delete" reload, "load" shows the rows, "none" does nothing
Stmt(op, row, k) == [op |-> op, row |-> row, k |-> k]
Select == Stmt("SELECT", NoRow, "load")

\* a settled statement waiting for its continuation to run
Reply(k, rows) == [k |-> k, rows |-> rows, behind |-> FALSE]

RECURSIVE ListAllAsc(_)
\* the SELECT without DESC
ListAllAsc(S) ==
    IF S = {} THEN <<>>
    ELSE LET low == CHOOSE r \in S : \A o \in S : o.id >= r.id
         IN  <<low>> \o ListAllAsc(S \ {low})

RECURSIVE ListAll(_)
\* SELECT * FROM expenses ORDER BY id DESC
ListAll(S) ==
    IF S = {} THEN <<>>
    ELSE LET top == CHOOSE r \in S : \A o \in S : o.id <= r.id
         IN  <<top>> \o ListAll(S \ {top})

\* a REAL column holds no NaN: SQLite stores NULL
StoreNum(a) == IF a = NaN THEN NullNum ELSE a

\* INSERT INTO expenses (amount, category, note, date) VALUES (?, ?, ?, ?)
InsertRow(S, id, r) == S \cup {Row(id, StoreNum(r.amount), r.category, r.note, r.date)}

\* UPDATE without its WHERE clause
UpdateRowAll(S, r) ==
    {Row(o.id, StoreNum(r.amount), r.category, r.note, r.date) : o \in S}

\* UPDATE expenses SET amount = ?, category = ?, note = ?, date = ? WHERE id = ?
UpdateRow(S, r) ==
    {IF o.id = r.id THEN Row(o.id, StoreNum(r.amount), r.category, r.note, r.date) ELSE o :
        o \in S}

\* DELETE FROM expenses WHERE id = ?
DeleteRow(S, id) == {o \in S : o.id # id}

\* handlers that have issued a statement and not finished
InFlight ==
    Cardinality({i \in 1..Len(queue) : queue[i].k # "none"}) + Len(inbox)

\* INSERTs issued so far
Inserts ==
    (nextId - 1) + Cardinality({i \in 1..Len(queue) : queue[i].op = "INSERT"})

\* SQLite runs the oldest statement issued
Execute ==
    /\ queue # <<>>
    /\ LET s == Head(queue)
           after == IF s.op = "INSERT" THEN InsertRow(store, nextId, s.row)
                    ELSE IF s.op = "UPDATE" THEN UpdateRow(store, s.row)
                    ELSE IF s.op = "DELETE" THEN DeleteRow(store, s.row.id)
                    ELSE store
       IN  /\ store' = after
           /\ nextId' = IF s.op = "INSERT" THEN nextId + 1 ELSE nextId
           /\ queue' = Tail(queue)
           /\ inbox' = IF s.k = "none" THEN inbox
                       ELSE Append(inbox, Reply(s.k, IF s.op = "SELECT" THEN ListAll(after)
                                                     ELSE <<>>))
    /\ did' = "Execute"
    /\ UNCHANGED <<variant, expenses, amount, category, note, date, filter, editingId,
                   clock, tz, stale, probe>>

\* the settled statement whose continuation runs next: the one that ran first
NextReply == 1

\* inbox without entry i; the rows read before a write now completed are behind it
Settle(i) ==
    LET ack == inbox[i].k \in {"submit", "delete"}
        rest == [j \in 1..(Len(inbox) - 1) |-> IF j < i THEN inbox[j] ELSE inbox[j + 1]]
    IN  [j \in 1..Len(rest) |->
            IF ack /\ j < i /\ rest[j].k = "load"
            THEN [rest[j] EXCEPT !.behind = TRUE] ELSE rest[j]]

\* resetForm without setDate('')
resetFormKeepsDate ==
    /\ amount' = <<>>
    /\ category' = <<>>
    /\ note' = <<>>
    /\ date' = date
    /\ editingId' = NullId

\* resetForm
resetForm ==
    /\ amount' = <<>>
    /\ category' = <<>>
    /\ note' = <<>>
    /\ date' = <<>>
    /\ editingId' = NullId

\* loadExpenses up to its await: the SELECT is issued
loadExpenses == queue' = Append(queue, Select)

\* the code after an await runs: of setup, handleSubmit, deleteExpense, loadExpenses
Deliver ==
    /\ inbox # <<>>
    /\ LET r == inbox[NextReply]
       IN  /\ inbox' = Settle(NextReply)
           /\ IF r.k = "load"
              THEN /\ expenses' = r.rows
                   /\ stale' = r.behind
                   /\ UNCHANGED <<queue, amount, category, note, date, editingId>>
              ELSE IF r.k = "submit"
              THEN /\ resetForm
                   /\ loadExpenses
                   /\ UNCHANGED <<expenses, stale>>
              ELSE /\ loadExpenses
                   /\ UNCHANGED <<expenses, stale, amount, category, note, date, editingId>>
    /\ did' = "Deliver"
    /\ UNCHANGED <<variant, store, nextId, filter, clock, tz, probe>>

(***************************************************************************)
(* The screens' handlers                                                   *)
(***************************************************************************)
\* the rows drawn on screen, each with its edit and delete buttons
Drawn == filteredExpenses(expenses, filter, variant, clock, tz)

\* onChangeText of the four inputs; S is what the user may type
setAmount(S) ==
    /\ \E t \in S : amount' = t
    /\ did' = "setAmount"
    /\ UNCHANGED <<variant, store, nextId, expenses, category, note, date, filter,
                   editingId, queue, inbox, clock, tz, stale, probe>>

setCategory(S) ==
    /\ \E t \in S : category' = t
    /\ did' = "setCategory"
    /\ UNCHANGED <<variant, store, nextId, expenses, amount, note, date, filter,
                   editingId, queue, inbox, clock, tz, stale, probe>>

setNote(S) ==
    /\ \E t \in S : note' = t
    /\ did' = "setNote"
    /\ UNCHANGED <<variant, store, nextId, expenses, amount, category, date, filter,
                   editingId, queue, inbox, clock, tz, stale, probe>>

setDate(S) ==
    /\ \E t \in S : date' = t
    /\ did' = "setDate"
    /\ UNCHANGED <<variant, store, nextId, expenses, amount, category, note, filter,
                   editingId, queue, inbox, clock, tz, stale, probe>>

\* what handleSubmit of the second screen writes, or NoRow when it returns early
submitRow ==
    LET amountNumber == ParseFloat(amount)
        trimmedCategory == Trim(category)
        trimmedNote == Trim(note)
        expenseDate == OrText(Trim(date), FormatDateForDb(clock))
    IN  IF IsNaN(amountNumber) \/ amountNumber <= 0 THEN NoRow
        ELSE IF FalsyText(trimmedCategory) THEN NoRow
        ELSE Row(editingId, amountNumber, trimmedCategory, OrText(trimmedNote, NullText),
                 expenseDate)

\* what handleSubmit of the third screen writes, or NoRow when it returns early
submitRowV3 ==
    LET amountNum == ParseFloat(amount)
        finalDate == OrText(Trim(date), FormatDateForDb(clock))
    IN  IF IsNaN(amountNum) \/ amountNum <= 0 THEN NoRow
        ELSE IF FalsyText(Trim(category)) THEN NoRow
        ELSE Row(editingId, amountNum, category, note, finalDate)

\* what saveExpense of the first screen writes, or NoRow when it returns early
saveRow ==
    IF FalsyText(amount) \/ FalsyText(category) \/ FalsyText(date) THEN NoRow
    ELSE Row(NullId, ParseFloat(amount), category, note, date)

\* handleSubmit (second and third screen) up to its await; cap bounds the handlers
\* in flight, ids the INSERTs issued
handleSubmit(cap, ids) ==
    /\ variant \in {2, 3}
    /\ LET row == IF variant = 2 THEN submitRow ELSE submitRowV3
           add == IF variant = 2 THEN editingId = NullId ELSE FalsyId(editingId)
       IN  IF row = NoRow
           THEN /\ did' = "return"
                /\ UNCHANGED <<screenVars, clock, tz, probe>>
           ELSE /\ InFlight < cap
                /\ add => Inserts < ids
                /\ did' = "handleSubmit"
                /\ queue' = Append(queue, Stmt(IF add THEN "INSERT" ELSE "UPDATE", row,
                                               "submit"))
                /\ UNCHANGED <<variant, store, nextId, expenses, amount, category, note,
                               date, filter, editingId, inbox, clock, tz, stale, probe>>

\* saveExpense (first screen): the INSERT, the cleared form, the reload
saveExpense(cap, ids) ==
    /\ variant = 1
    /\ IF saveRow = NoRow
       THEN /\ did' = "return"
            /\ UNCHANGED <<screenVars, clock, tz, probe>>
       ELSE /\ InFlight < cap
            /\ Inserts < ids
            /\ did' = "saveExpense"
            /\ queue' = queue \o <<Stmt("INSERT", saveRow, "none"), Select>>
            /\ amount' = <<>>
            /\ category' = <<>>
            /\ note' = <<>>
            /\ date' = <<>>
            /\ UNCHANGED <<variant, store, nextId, expenses, filter, editingId, inbox,
                           clock, tz, stale, probe>>

\* deleteExpense(item.id) of a row on screen
deleteExpense(cap) ==
    /\ InFlight < cap
    /\ did' = "deleteExpense"
    /\ \E i \in 1..Len(Drawn) :
          queue' = IF variant = 1
                   THEN queue \o <<Stmt("DELETE", [NoRow EXCEPT !.id = Drawn[i].id], "none"),
                                   Select>>
                   ELSE Append(queue, Stmt("DELETE", [NoRow EXCEPT !.id = Drawn[i].id],
                                           "delete"))
    /\ UNCHANGED <<variant, store, nextId, expenses, amount, category, note, date, filter,
                   editingId, inbox, clock, tz, stale, probe>>

\* startEditing(item) of a row on screen
startEditing ==
    /\ variant \in {2, 3}
    /\ did' = "startEditing"
    /\ \E i \in 1..Len(Drawn) :
          /\ editingId' = Drawn[i].id
          /\ amount' = NumToText(Drawn[i].amount)
          /\ category' = Drawn[i].category
          /\ note' = OrText(Drawn[i].note, <<>>)
          /\ date' = OrText(Drawn[i].date, <<>>)
    /\ UNCHANGED <<variant, store, nextId, expenses, filter, queue, inbox, clock, tz,
                   stale, probe>>

\* the Cancel Edit button (second screen), drawn while editing
cancelEdit ==
    /\ variant = 2
    /\ editingId # NullId
    /\ resetForm
    /\ did' = "cancelEdit"
    /\ UNCHANGED <<variant, store, nextId, expenses, filter, queue, inbox, clock, tz,
                   stale, probe>>

\* time passes
Tick ==
    /\ \E s \in ProbeStarts : clock >= s /\ clock < s + MaxTicks * TickMinutes
    /\ clock' = clock + TickMinutes
    /\ did' = "Tick"
    /\ UNCHANGED <<screenVars, tz, probe>>

\* the mount effect has run up to its first await: CREATE TABLE is issued (the first
\* screen issues it and the first SELECT without waiting)
Mounted ==
    /\ Fresh
    /\ probe = NoProbe
    /\ variant \in {1, 2, 3}

Setup(v) ==
    IF v = 1 THEN <<Stmt("CREATE", NoRow, "none"), Select>>
    ELSE <<Stmt("CREATE", NoRow, "setup")>>

(***************************************************************************)
(* The screen with handlers overlapping, little to type                    *)
(***************************************************************************)
Five == <<"5">>
Food == <<"F">>
Feb27 == DayText(DaysFromCivil(2024, 2, 27))

Init ==
    /\ Mounted
    /\ queue = Setup(variant)
    /\ clock = DaysFromCivil(2024, 2, 26) * MinPerDay
    /\ tz = 0

Next ==
    \/ setAmount({Five})
    \/ setCategory({Food})
    \/ handleSubmit(MaxPending, MaxId)
    \/ saveExpense(MaxPending, MaxId)
    \/ deleteExpense(MaxPending)
    \/ startEditing
    \/ cancelEdit
    \/ Execute
    \/ Deliver

Spec == Init /\ [][Next]_vars

(***************************************************************************)
(* The screen with one handler at a time, more to type                     *)
(***************************************************************************)
AmountTexts == {Five, <<"0">>, <<"a", "b">>, <<" ", "1", "2", "x">>}
CategoryTexts == {Food, <<" ", "F", " ">>, <<" ">>}
NoteTexts == {<<" ", "n">>}
DateTexts == {<<" ">> \o Feb27, Garbage}

NextForm ==
    \/ setAmount(AmountTexts)
    \/ setCategory(CategoryTexts)
    \/ setNote(NoteTexts)
    \/ setDate(DateTexts)
    \/ handleSubmit(1, MaxFormId)
    \/ saveExpense(1, MaxFormId)
    \/ deleteExpense(1)
    \/ startEditing
    \/ cancelEdit
    \/ Execute
    \/ Deliver

SpecForm == Init /\ [][NextForm]_vars

(***************************************************************************)
(* The form submitted while time passes, on every device offset            *)
(***************************************************************************)
InitClock ==
    /\ Mounted
    /\ queue = Setup(variant)
    /\ clock = DaysFromCivil(2024, 2, 26) * MinPerDay
    /\ tz \in TimeZones

NextClock ==
    \/ Tick
    \/ setAmount({Five})
    \/ setCategory({Food})
    \/ setDate({<<>>, Feb27})
    \/ handleSubmit(1, MaxFormId)
    \/ saveExpense(1, MaxFormId)
    \/ startEditing
    \/ Execute
    \/ Deliver

SpecClock == InitClock /\ [][NextClock]_vars

(***************************************************************************)
(* Claims about the form and the store                                     *)
(***************************************************************************)
\* the INSERT or UPDATE a submit step has just issued
Issued == queue'[Len(queue) + 1]
SubmitStep == did' \in {"handleSubmit", "saveExpense"}
QueuedWrites == {queue[i] : i \in {j \in 1..Len(queue) : queue[j].op \in {"INSERT", "UPDATE"}}}

\* C1: a submit whose amount is no number or is <= 0 writes nothing, so every row
\* stored, and every row on its way to the store, has amount > 0
C1_AmountsPositive ==
    /\ \A r \in store : r.amount > 0
    /\ \A w \in QueuedWrites : w.row.amount > 0

\* the same of the second and third screen alone
C1_HandleSubmitAmounts == variant \in {2, 3} => C1_AmountsPositive

\* C2: a submit whose category is empty or white space writes nothing, so every row
\* stored, and every row on its way to the store, has a category that is not empty
\* after trimming
C2_CategoriesNonEmpty ==
    /\ \A r \in store : Trim(r.category) # <<>>
    /\ \A w \in QueuedWrites : Trim(w.row.category) # <<>>

\* the same of the second and third screen alone
C2_HandleSubmitCategories == variant \in {2, 3} => C2_CategoriesNonEmpty

\* the fields of row r are those of written row w
SameFields(r, w) ==
    /\ r.amount = w.amount
    /\ r.category = w.category
    /\ r.note = w.note
    /\ r.date = w.date

\* a submit issues the values typed, trimmed, the date defaulted
IssuesWhatWasTyped ==
    SubmitStep =>
        /\ Issued.row.amount = ParseFloat(amount)
        /\ Issued.row.category = Trim(category)
        /\ OrText(Issued.row.note, <<>>) = Trim(note)
        /\ Issued.row.date = (IF Trim(date) = <<>> THEN FormatDateForDb(clock) ELSE Trim(date))
        /\ Issued.op = "UPDATE" => Issued.row.id = editingId

\* the list read back after a statement ran
ReadBack == ListAll(store')

\* after an INSERT the list holds the new row, after an UPDATE of a stored id the
\* list holds the id with the new fields, after a DELETE the list does not hold the id
StoreKeepsWhatWasIssued ==
    (did' = "Execute") =>
        LET s == Head(queue)
        IN  /\ s.op = "INSERT" =>
                \E i \in 1..Len(ReadBack) :
                    ReadBack[i].id = nextId /\ SameFields(ReadBack[i], s.row)
            /\ (s.op = "UPDATE" /\ \E r \in store : r.id = s.row.id) =>
                \E i \in 1..Len(ReadBack) :
                    ReadBack[i].id = s.row.id /\ SameFields(ReadBack[i], s.row)
            /\ s.op = "DELETE" =>
                \A i \in 1..Len(ReadBack) : ReadBack[i].id # s.row.id

\* C3: round trip: what a valid add or edit submits (trimmed, date defaulted) is what
\* the list read back holds under the row's id, and a deleted id is gone from it
C3_RoundTrip == [][IssuesWhatWasTyped /\ StoreKeepsWhatWasIssued]_vars

\* the same of the second screen alone
C3_SecondScreenRoundTrip ==
    [][variant = 2 => (IssuesWhatWasTyped /\ StoreKeepsWhatWasIssued)]_vars

\* C4: a valid submit with the date field empty writes today's date, the calendar
\* date of the device at that moment, at every time of day and device offset
C4_EmptyDateIsToday ==
    [][(SubmitStep /\ Trim(date) = <<>>) =>
           Issued.row.date = DayText(DayOf(clock, tz))]_vars

\* what the code writes instead: the date in UTC
C4_EmptyDateIsUtcDate ==
    [][(SubmitStep /\ Trim(date) = <<>>) =>
           Issued.row.date = DayText(DayOf(clock, 0))]_vars

\* C8: startEditing, typing into the form and Cancel Edit issue no statement and
\* leave the store as it is, and Cancel Edit leaves add mode with an empty form
C8_EditCancelKeepsStore ==
    [][/\ did' \in {"startEditing", "setAmount", "setCategory", "setNote", "setDate",
                    "cancelEdit"}
           => (store' = store /\ nextId' = nextId /\ queue' = queue /\ inbox' = inbox)
       /\ did' = "cancelEdit"
           => (editingId' = NullId /\ amount' = <<>> /\ category' = <<>>
               /\ note' = <<>> /\ date' = <<>>)]_vars

\* Cancel Edit has run on a form changed after startEditing; a row is stored
C8_Witness ==
    /\ did = "cancelEdit"
    /\ store # {}
    /\ editingId = NullId
    /\ amount = <<>> /\ category = <<>> /\ note = <<>> /\ date = <<>>

Quiescent == queue = <<>> /\ inbox = <<>>

IsIsoDate(s) ==
    /\ s # NullText
    /\ Len(s) = 10
    /\ s[5] = "-" /\ s[8] = "-"
    /\ AllDigits(SubSeq(s, 1, 4))
    /\ AllDigits(SubSeq(s, 6, 7))
    /\ AllDigits(SubSeq(s, 9, 10))

\* C11: every row stored, and every row on its way to the store, has a date of the
\* form YYYY-MM-DD, whatever was typed into the date field
C11_DatesAreIso ==
    /\ \A r \in store : IsIsoDate(r.date)
    /\ \A w \in QueuedWrites : IsIsoDate(w.row.date)

\* the same of the dates the code itself supplies for an empty field
C11_DefaultedDatesAreIso ==
    [][(SubmitStep /\ Trim(date) = <<>>) => IsIsoDate(Issued.row.date)]_vars

(***************************************************************************)
(* Claims about handlers in flight                                         *)
(***************************************************************************)
IsWrite(st) == st.op \in {"INSERT", "UPDATE", "DELETE"}

\* writes of submit and delete handlers issued and not yet run
PendingWrites == {i \in 1..Len(queue) : IsWrite(queue[i])}

\* a submit or delete handler has issued its write and has not yet issued its reload
HandlerPending ==
    \/ PendingWrites # {}
    \/ \E i \in 1..Len(inbox) : inbox[i].k \in {"submit", "delete"}

\* a handler issues its write
WriteStep == did' \in {"handleSubmit", "saveExpense", "deleteExpense"}

\* the continuation of a submit or delete handler issues its reload
ReloadStep ==
    /\ did' = "Deliver"
    /\ inbox[NextReply].k \in {"submit", "delete"}

\* C12: store operations never overlap: a handler issues its write only when no
\* earlier handler's write or reload is outstanding, and a handler's reload is issued
\* only when no other handler's write is outstanding
C12_NoOverlap ==
    [][/\ WriteStep => ~HandlerPending
       /\ ReloadStep => PendingWrites = {}]_vars

\* the same of one form tapped twice: no two INSERTs of the same values are
\* outstanding together
C12_NoDoubleInsert ==
    \A i \in PendingWrites : \A j \in PendingWrites :
        (i # j /\ queue[i].op = "INSERT" /\ queue[j].op = "INSERT")
            => queue[i].row # queue[j].row

(***************************************************************************)
(* Claims about the edit target                                            *)
(***************************************************************************)
StoredIds == {r.id : r \in store}

\* C13: while the form is in edit mode the record being edited is in the store
C13_EditTargetStored == editingId # NullId => editingId \in StoredIds

\* the same seen from the store: every UPDATE that runs names a stored id
C13_UpdateHitsARow ==
    [][(did' = "Execute" /\ Head(queue).op = "UPDATE")
           => Head(queue).row.id \in StoredIds]_vars

(***************************************************************************)
(* Adds, edits and deletes of records that differ, one handler at a time   *)
(***************************************************************************)
Seven == <<"7">>

NextFrame ==
    \/ setAmount({Five, Seven})
    \/ setCategory({Food})
    \/ handleSubmit(1, MaxId)
    \/ saveExpense(1, MaxId)
    \/ deleteExpense(1)
    \/ startEditing
    \/ cancelEdit
    \/ Execute
    \/ Deliver

SpecFrame == Init /\ [][NextFrame]_vars

(***************************************************************************)
(* Claims about what a statement changes                                   *)
(***************************************************************************)
\* the records other than id x are the same before and after the step
OthersKept(x) ==
    /\ \A r \in store : r.id # x => r \in store'
    /\ \A r \in store' : r.id # x => r \in store

\* an UPDATE of id x ran: the other records and the set of ids are kept, and x, when
\* stored, has the fields written
EditFrame(s) ==
    /\ OthersKept(s.row.id)
    /\ {r.id : r \in store'} = StoredIds
    /\ Cardinality(store') = Cardinality(store)
    /\ s.row.id \in StoredIds =>
           \E r \in store' : r.id = s.row.id /\ SameFields(r, s.row)

\* a DELETE of id x ran: x is gone and nothing else is
DeleteFrame(s) ==
    /\ OthersKept(s.row.id)
    /\ \A r \in store' : r.id # s.row.id

\* an INSERT ran: the records there are kept and one is added, under the next id of
\* the sequence, which no record has
AddFrame ==
    /\ store \subseteq store'
    /\ Cardinality(store' \ store) = 1
    /\ \A r \in store' \ store : r.id = nextId /\ r.id \notin StoredIds
    /\ nextId' > nextId

StatementFrame ==
    (did' = "Execute") =>
        LET s == Head(queue)
        IN  /\ s.op = "UPDATE" => EditFrame(s)
            /\ s.op = "DELETE" => DeleteFrame(s)
            /\ s.op = "INSERT" => AddFrame
            /\ ~IsWrite(s) => store' = store
            /\ s.op # "INSERT" => nextId' = nextId

\* the ids stored are distinct, and all below the next id of the sequence
IdsUniqueAndUsed ==
    /\ \A r \in store : \A o \in store : r.id = o.id => r = o
    /\ \A r \in store : r.id >= 1 /\ r.id < nextId

\* an id that has left the store is never stored again
IdsNeverReturn ==
    \A i \in 1..(MaxId + 1) :
        []((i \in StoredIds) => []((i \notin StoredIds) => [](i \notin StoredIds)))

\* C14: an edit of id X and a delete of id X leave the records of every other id as
\* they are; the edit keeps the set of ids, the delete removes X alone; an add keeps
\* every record and gives the new one an id no record has, or has had
C14_FrameEffects ==
    /\ [][StatementFrame]_vars
    /\ []IdsUniqueAndUsed
    /\ IdsNeverReturn

\* an UPDATE has just run while two records with different amounts are stored: the
\* list on screen already showed both, so the statement that ran last was no INSERT
C14_Witness ==
    /\ did = "Execute"
    /\ inbox # <<>>
    /\ inbox[Len(inbox)].k = "submit"
    /\ nextId = 3
    /\ Cardinality(store) = 2
    /\ Len(expenses) = 2
    /\ \E r \in store : \E o \in store : r.amount # o.amount

====
